---------------------------- MODULE Spec2Model ----------------------------
(***************************************************************************)
(* A model of ko-speech-tools: the academic romanization transducer        *)
(* (romanize.py) and the special pronunciation rules (g2p/special.py).     *)
(*                                                                         *)
(* A Python str is a sequence of code points (naturals); a character is    *)
(* one code point.  Python's 0-based indices become 1-based here, so       *)
(* TABLE[k] of the source is TABLE[k + 1] below.                           *)
(***************************************************************************)
EXTENDS Integers, Sequences, FiniteSets, TLC

VARIABLES
    \* ---- Transliter.translit (romanize.py:115-142)
    text,        \* the characters the for loop has read so far
    pre,         \* the local pre: a (character, Syllable-or-None) pair
    now,         \* the local now
    result,      \* the local result: the list of fragments appended so far
    output,      \* the returned string, u''.join(result)
    calls,       \* the rule's invocations so far: <<now, pre, post>> each
    pc,          \* "loop" while the for loop runs, "done" after the return
    \* ---- membership tests of ACADEMIC_AMBIGUOUS_PATTERNS (romanize.py:32,47)
    cand,        \* the string looked up
    member,      \* the answer of  cand in ACADEMIC_AMBIGUOUS_PATTERNS
    \* ---- one call of a rule function of special.py
    inp,         \* the argument inp
    descriptive, \* the keyword argument descriptive
    out,         \* the returned string
    rule,        \* the name of the function called ("none" before the call)
    raised,      \* whether the call raised instead of returning
    \* ---- rule functions applied one after the other to inp
    applied,     \* the names of the functions applied so far, in order
    \* ---- one construction of a Syllable (romanize.py:64-95)
    code,        \* the argument code
    constructed, \* "no" before the call, then "yes" or "TypeError"
    triple,      \* <<initial, vowel, final>> of the constructed Syllable
    \* ---- calls running in several threads
    module,      \* the module-level objects of romanize.py and special.py
    job,         \* per thread: the call it makes (function, argument, flag)
    frame,       \* per thread: the local variables of its running call
    returned     \* per thread: what its calls have returned so far

vars == <<text, pre, now, result, output, calls, pc, cand, member,
          inp, descriptive, out, rule, raised, applied,
          code, constructed, triple, module, job, frame, returned>>

translitVars == <<text, pre, now, result, output, calls, pc>>
patternVars  == <<cand, member>>
ruleVars     == <<inp, descriptive, out, rule, raised>>
pipelineVars == <<applied>>
syllableVars == <<code, constructed, triple>>
threadVars   == <<module, job, frame, returned>>

-----------------------------------------------------------------------------
(* Bounds of the model.                                                    *)

\* Longest input text of translit.
MaxLen == 3

\* Texts up to this length draw their characters from the whole alphabet
\* (every final and every initial); longer ones from the core alphabet.
MaxFullLen == 2

\* Longest input of a rule function, in chunks (see the chunk sets below).
MaxChunks == 4

\* Longest input of the specification that calls every rule function.
MaxAnyChunks == 3

-----------------------------------------------------------------------------
(* Strings.                                                                *)

Letters == <<"a", "b", "c", "d", "e", "f", "g", "h", "i", "j", "k", "l", "m",
             "n", "o", "p", "q", "r", "s", "t", "u", "v", "w", "x", "y", "z">>

\* ord() of a lower-case Latin letter: ord('a') = 97.
Ord(ch) == 96 + (CHOOSE k \in 1..26 : Letters[k] = ch)

\* The str whose characters are the letters of the tuple t.
Str(t) == [k \in 1..Len(t) |-> Ord(t[k])]

\* Characters of the ASCII range that the source names.
Ascii == [nl |-> 10, space |-> 32, bang |-> 33, hyphen |-> 45, slash |-> 47,
          three |-> 51, E |-> 69, J |-> 74, P |-> 80, a |-> 97]

\* u''.join(list): the concatenation of a list of strings.
RECURSIVE Join(_)
Join(list) == IF list = <<>> THEN <<>> ELSE Head(list) \o Join(Tail(list))

\* The set of the elements of a tuple: what  x in TUPLE  tests.
Range(t) == {t[k] : k \in 1..Len(t)}

\* None, a value that is no code point, no Syllable and no string.
None == -1

-----------------------------------------------------------------------------
(* romanize.py: the romanization tables.                                   *)

REVISED_INITIALS ==
    << Str(<<"g">>), Str(<<"k","k">>), Str(<<"n">>), Str(<<"d">>),
       Str(<<"t","t">>), Str(<<"l">>), Str(<<"m">>), Str(<<"b">>),
       Str(<<"p","p">>), Str(<<"s">>), Str(<<"s","s">>), <<>>,
       Str(<<"j">>), Str(<<"j","j">>), Str(<<"c","h">>), Str(<<"k">>),
       Str(<<"t">>), Str(<<"p">>), Str(<<"h">>) >>

REVISED_VOWELS ==
    << Str(<<"a">>), Str(<<"a","e">>), Str(<<"y","a">>), Str(<<"y","a","e">>),
       Str(<<"e","o">>), Str(<<"e">>), Str(<<"y","e","o">>), Str(<<"y","e">>),
       Str(<<"o">>), Str(<<"w","a">>), Str(<<"w","a","e">>), Str(<<"o","e">>),
       Str(<<"y","o">>), Str(<<"u">>), Str(<<"w","o">>), Str(<<"w","e">>),
       Str(<<"w","i">>), Str(<<"y","u">>), Str(<<"e","u">>), Str(<<"u","i">>),
       Str(<<"i">>) >>

REVISED_FINALS ==
    << <<>>, Str(<<"g">>), Str(<<"k","k">>), Str(<<"g","s">>), Str(<<"n">>),
       Str(<<"n","j">>), Str(<<"n","h">>), Str(<<"d">>), Str(<<"l">>),
       Str(<<"l","g">>), Str(<<"l","m">>), Str(<<"l","b">>), Str(<<"l","s">>),
       Str(<<"l","t">>), Str(<<"l","p">>), Str(<<"l","h">>), Str(<<"m">>),
       Str(<<"b">>), Str(<<"b","s">>), Str(<<"s">>), Str(<<"s","s">>),
       Str(<<"n","g">>), Str(<<"j">>), Str(<<"c","h">>), Str(<<"k">>),
       Str(<<"t">>), Str(<<"p">>), Str(<<"h">>) >>

-----------------------------------------------------------------------------
(* romanize.py: academic_ambiguous_patterns.                               *)

\* range(len(combined)): the split points the inner loop visits.
SplitRangeOffByOne(combined) == 0 .. Len(combined)
SplitRange(combined) == 0 .. (Len(combined) - 1)

\* head in REVISED_FINALS and tail in REVISED_INITIALS, for
\* head, tail = combined[:i], combined[i:].
SplitOK(combined, i) ==
    /\ SubSeq(combined, 1, i) \in Range(REVISED_FINALS)
    /\ SubSeq(combined, i + 1, Len(combined)) \in Range(REVISED_INITIALS)

\* The inner loop from split point i on, with the flag check: TRUE when it
\* reaches result.add(combined), FALSE when the range is exhausted first.
RECURSIVE ScanSplits(_, _, _)
ScanSplits(combined, i, check) ==
    IF i \notin SplitRange(combined) THEN FALSE
    ELSE IF SplitOK(combined, i)
         THEN IF ~check THEN ScanSplits(combined, i + 1, TRUE) ELSE TRUE
         ELSE ScanSplits(combined, i + 1, check)

\* The function's result: the combined strings of the product that were added.
academic_ambiguous_patterns ==
    { c \in { REVISED_FINALS[f] \o REVISED_INITIALS[i] :
                  f \in 1..Len(REVISED_FINALS), i \in 1..Len(REVISED_INITIALS) } :
        ScanSplits(c, 0, FALSE) }

ACADEMIC_AMBIGUOUS_PATTERNS == academic_ambiguous_patterns

-----------------------------------------------------------------------------
(* romanize.py: class Syllable.  A Syllable object is modelled by its      *)
(* field code; the properties are operators of it.                         *)

\* ord(u'가') and ord(u'힣').
SyllableMIN == 44032
SyllableMAX == 55203

\* Whether Syllable(c) raises TypeError.
SyllableRaises(c) == ~(SyllableMIN <= c /\ c <= SyllableMAX)

index(s)   == s - SyllableMIN
initial(s) == index(s) \div 588
vowelNoModulo(s) == index(s) \div 28
vowel(s)   == (index(s) \div 28) % 21
final(s)   == index(s) % 28

\* The code point of the syllable with the given initial, vowel and final
\* (the inverse of the three properties; used to write the alphabets).
Hangul(i, v, f) == SyllableMIN + i * 588 + v * 28 + f

-----------------------------------------------------------------------------
(* romanize.py: academic, the rule of the academic transliteration.        *)

\* The value of marker after lines 41-48.
MarkerNoPatterns(s, ps) == ps # None /\ initial(s) = 11
MarkerNoNullInitial(s, ps) ==
    /\ ps # None
    /\ (REVISED_FINALS[final(ps) + 1] \o REVISED_INITIALS[initial(s) + 1])
           \in ACADEMIC_AMBIGUOUS_PATTERNS
MarkerIgnoresPrevious(s, ps) ==
    \/ initial(s) = 11
    \/ ((IF ps # None THEN REVISED_FINALS[final(ps) + 1] ELSE <<>>)
           \o REVISED_INITIALS[initial(s) + 1]) \in ACADEMIC_AMBIGUOUS_PATTERNS
Marker(s, ps) ==
    IF ps # None
    THEN IF initial(s) = 11 THEN TRUE
         ELSE (REVISED_FINALS[final(ps) + 1] \o REVISED_INITIALS[initial(s) + 1])
                  \in ACADEMIC_AMBIGUOUS_PATTERNS
    ELSE FALSE

\* The romanization of one syllable (line 53).
RomanNoFinal(s) == REVISED_INITIALS[initial(s) + 1] \o REVISED_VOWELS[vowel(s) + 1]
Roman(s) ==
    REVISED_INITIALS[initial(s) + 1] \o REVISED_VOWELS[vowel(s) + 1]
        \o REVISED_FINALS[final(s) + 1]

\* What academic returns when it returns None: no string.
NoString == <<None>>

academicDropsOther(n, p) ==
    IF n[2] = None THEN NoString
    ELSE (IF Marker(n[2], p[2]) THEN <<Ascii.hyphen>> ELSE <<>>) \o Roman(n[2])

\* academic(now, pre): now and pre are (character, Syllable-or-None) pairs.
\* With s None it returns c, a one-character string or None.
academic(n, p) ==
    LET c == n[1]
        s == n[2]
    IN  IF s = None
        THEN IF c = None THEN NoString ELSE <<c>>
        ELSE LET ps == p[2]
             IN  (IF Marker(s, ps) THEN <<Ascii.hyphen>> ELSE <<>>) \o Roman(s)

-----------------------------------------------------------------------------
(* romanize.py: Transliter.translit with rule = academic.                  *)

\* The characters the model's texts are made of.  Full: a syllable for
\* every final and one for every initial, and characters that are no Hangul
\* syllable: a space, '!', 'a', the bare jamo U+1100, and the two code
\* points next to the syllable block, U+ABFF and U+D7A4.
HangulFull == {Hangul(0, 0, f) : f \in 0..27} \cup {Hangul(i, 20, 0) : i \in 0..18}
                  \cup {Hangul(7, 0, 9)}
HangulCore == {Hangul(0, 0, 0), Hangul(0, 0, 1), Hangul(1, 0, 0), Hangul(11, 20, 0),
               Hangul(11, 0, 20), Hangul(18, 20, 27)}
NonHangul  == {Ascii.space, Ascii.bang, Ascii.a, 4352, SyllableMIN - 1, SyllableMAX + 1}
NonHangulCore == {Ascii.space, Ascii.a}

Alphabet == HangulFull \cup HangulCore \cup NonHangul

\* The texts of the model: a text longer than MaxFullLen is over the core.
TextOK(t) ==
    /\ Len(t) <= MaxLen
    /\ Len(t) > MaxFullLen => \A k \in 1..Len(t) : t[k] \in HangulCore \cup NonHangulCore

\* post = c, Syllable(c), or c, None when the constructor raises.
Element(c) == IF SyllableRaises(c) THEN <<c, None>> ELSE <<c, c>>

NonePair == <<None, None>>

\* result after  out = self.rule(...); if out is not None: result.append(out).
Appended(res, o) == IF o # NoString THEN Append(res, o) ELSE res

InitTranslit ==
    /\ text = <<>>
    /\ pre = NonePair
    /\ now = NonePair
    /\ result = <<>>
    /\ output = <<>>
    /\ calls = <<>>
    /\ pc = "loop"

\* One iteration of  for c in text  (lines 123-135).
ReadChar(c) ==
    /\ pc = "loop"
    /\ TextOK(Append(text, c))
    /\ text' = Append(text, c)
    /\ LET post == Element(c)
       IN  /\ IF now[1] # None
              THEN /\ result' = Appended(result, academic(now, pre))
                   /\ calls' = Append(calls, <<now, pre, post>>)
              ELSE UNCHANGED <<result, calls>>
           /\ pre' = now
           /\ now' = post
    /\ UNCHANGED <<output, pc>>

\* The end of the loop, the last call of the rule and the return
\* (lines 137-142).  now is a tuple, so  now is not None  holds always.
Finish ==
    /\ pc = "loop"
    /\ LET res == Appended(result, academic(now, pre))
       IN  /\ result' = res
           /\ output' = Join(res)
    /\ calls' = Append(calls, <<now, pre, NonePair>>)
    /\ pc' = "done"
    /\ UNCHANGED <<text, pre, now>>

-----------------------------------------------------------------------------
(* g2p/special.py: the characters of the patterns.                         *)

\* Lead consonants (U+1100..U+1112), as the patterns write them.
Cho == [g |-> 4352, gg |-> 4353, n |-> 4354, d |-> 4355, dd |-> 4356,
        r |-> 4357, m |-> 4358, b |-> 4359, bb |-> 4360, s |-> 4361,
        ss |-> 4362, ng |-> 4363, j |-> 4364, jj |-> 4365, c |-> 4366,
        k |-> 4367, t |-> 4368, p |-> 4369, h |-> 4370]

\* Vowels (U+1161..U+1175).
Jung == [a |-> 4449, ae |-> 4450, eo |-> 4453, e |-> 4454, yeo |-> 4455,
         ye |-> 4456, o |-> 4457, oe |-> 4460, u |-> 4462, eu |-> 4467,
         ui |-> 4468, i |-> 4469]

\* Tail consonants (U+11A8..U+11C2).
Jong == [g |-> 4520, gg |-> 4521, n |-> 4523, nj |-> 4524, d |-> 4526,
         l |-> 4527, lg |-> 4528, lm |-> 4529, lb |-> 4530, lt |-> 4532,
         m |-> 4535, b |-> 4536, ng |-> 4540, j |-> 4541, c |-> 4542,
         k |-> 4543, t |-> 4544, p |-> 4545, h |-> 4546]

\* The compatibility jamo U+3139 that the class of ye holds in place of the
\* lead U+1105.
CompatRieul == 12601

\* The characters \s matches in a str pattern; \S matches every other one.
Whitespace == {9, 10, 11, 12, 13, 28, 29, 30, 31, 32, 133, 160, 5760,
               8192, 8193, 8194, 8195, 8196, 8197, 8198, 8199, 8200, 8201,
               8202, 8232, 8233, 8239, 8287, 12288}

-----------------------------------------------------------------------------
(* re.sub(pattern, repl, string) for the patterns of special.py.           *)
(*                                                                         *)
(* A pattern is a sequence of elements, each matching one character: a     *)
(* character class [set] or a negated one [^set]; an element with orEnd    *)
(* stands for the group ($|[^set]) that ends the first pattern of balb.    *)
(* groups gives, for every group of the pattern, the positions of the      *)
(* match it spans.  A replacement is a sequence of characters [c |-> ..]   *)
(* and group references [g |-> n] (\n of the template).                    *)

Lit(c)       == [neg |-> FALSE, set |-> {c}, orEnd |-> FALSE]
Class(S)     == [neg |-> FALSE, set |-> S, orEnd |-> FALSE]
NotClass(S)  == [neg |-> TRUE, set |-> S, orEnd |-> FALSE]
EndOrNot(S)  == [neg |-> TRUE, set |-> S, orEnd |-> TRUE]

Chr(c) == [c |-> c]
Grp(n) == [g |-> n]

\* A pattern without special characters, and a template without references.
Literal(str)  == [k \in 1..Len(str) |-> Lit(str[k])]
Template(str) == [k \in 1..Len(str) |-> Chr(str[k])]

InClass(e, c) == IF e.neg THEN c \notin e.set ELSE c \in e.set

\* $ at position j of s (the position of the character s[j]): the end of the
\* string, or just before a newline that ends the string.
AtDollar(s, j) == j = Len(s) + 1 \/ (j = Len(s) /\ s[j] = Ascii.nl)

\* Whether elements 1..n of pat match s[i], s[i+1], ...
MatchesPrefix(pat, n, s, i) ==
    /\ i + n - 1 <= Len(s)
    /\ \A k \in 1..n : InClass(pat[k], s[i + k - 1])

\* The length of the match of pat that starts at s[i], 0 when there is none.
\* The alternative $ of a last element with orEnd is tried first.
MatchLen(pat, s, i) ==
    LET n == Len(pat)
    IN  IF pat[n].orEnd
        THEN IF ~MatchesPrefix(pat, n - 1, s, i) THEN 0
             ELSE IF AtDollar(s, i + n - 1) THEN n - 1
             ELSE IF MatchesPrefix(pat, n, s, i) THEN n ELSE 0
        ELSE IF MatchesPrefix(pat, n, s, i) THEN n ELSE 0

\* The text of group n of the match m (empty when the group matched $).
GroupText(groups, n, m) ==
    LET from == groups[n][1]
        to   == IF groups[n][2] <= Len(m) THEN groups[n][2] ELSE Len(m)
    IN  SubSeq(m, from, to)

\* The template repl expanded for the match m.
RECURSIVE Expand(_, _, _)
Expand(repl, groups, m) ==
    IF repl = <<>> THEN <<>>
    ELSE (IF "g" \in DOMAIN Head(repl)
          THEN GroupText(groups, Head(repl).g, m)
          ELSE <<Head(repl).c>>) \o Expand(Tail(repl), groups, m)

\* The scan of re.sub from s[i] on: the leftmost match is replaced and the
\* scan goes on behind it; a character no match starts at is copied.
RECURSIVE SubFromDropsTail(_, _, _)
SubFromDropsTail(r, s, i) ==
    IF i + Len(r.pat) - 1 > Len(s) THEN <<>>
    ELSE LET n == MatchLen(r.pat, s, i)
         IN  IF n > 0
             THEN Expand(r.repl, r.groups, SubSeq(s, i, i + n - 1))
                      \o SubFromDropsTail(r, s, i + n)
             ELSE <<s[i]>> \o SubFromDropsTail(r, s, i + 1)

RECURSIVE SubFrom(_, _, _)
SubFrom(r, s, i) ==
    IF i > Len(s) THEN <<>>
    ELSE LET n == MatchLen(r.pat, s, i)
         IN  IF n > 0
             THEN Expand(r.repl, r.groups, SubSeq(s, i, i + n - 1))
                      \o SubFrom(r, s, i + n)
             ELSE <<s[i]>> \o SubFrom(r, s, i + 1)

\* re.sub(r.pat, r.repl, s); str.replace(old, new) is the same scan with a
\* literal pattern.
ReSub(r, s) == SubFrom(r, s, 1)

\* for str1, str2 in pairs: out = re.sub(str1, str2, out)
RECURSIVE SubAll(_, _)
SubAll(pairs, s) ==
    IF pairs = <<>> THEN s ELSE SubAll(Tail(pairs), ReSub(Head(pairs), s))

\* A substitution: pattern, groups, template.
Rx(pat, groups, repl) == [pat |-> pat, groups |-> groups, repl |-> repl]

-----------------------------------------------------------------------------
(* g2p/special.py: the rule functions.  Each returns the string out.       *)

\* The identifiers rule_id2text holds an explanation for.
rule_id2text == {"5.1", "5.2", "5.3", "5.4.1", "5.4.2", "10.1", "11.1",
                 "16", "17", "24", "25", "27"}

\* The identifier each rule function looks up in its first statement.
RuleId == [jyeo |-> "5.1", ye |-> "5.2", consonant_ui |-> "5.3",
           josa_ui |-> "5.4.2", vowel_ui |-> "5.4.1", jamo |-> "16",
           rieulgiyeok |-> "11.1", rieulbieub |-> "25", verb_nieun |-> "24",
           balb |-> "10.1", palatalize |-> "17", modifying_rieul |-> "27"]

\* re.sub("([ᄌᄍᄎ])ᅧ", r"\1ᅥ", inp)
jyeoPairs ==
    << Rx(<<Class({Cho.j, Cho.jj, Cho.c}), Lit(Jung.yeo)>>, <<<<1, 1>>>>,
          <<Grp(1), Chr(Jung.eo)>>) >>

jyeo(s, d) == SubAll(jyeoPairs, s)

\* re.sub("([ᄀᄁᄃᄄㄹᄆᄇᄈᄌᄍᄎᄏᄐᄑᄒ])ᅨ", r"\1ᅦ", inp) if descriptive
yeClass == {Cho.g, Cho.gg, Cho.d, Cho.dd, CompatRieul, Cho.m, Cho.b, Cho.bb,
            Cho.j, Cho.jj, Cho.c, Cho.k, Cho.t, Cho.p, Cho.h}

yePairs ==
    << Rx(<<Class(yeClass), Lit(Jung.ye)>>, <<<<1, 1>>>>,
          <<Grp(1), Chr(Jung.e)>>) >>

yeFlagIgnored(s, d) == SubAll(yePairs, s)
ye(s, d) == IF d THEN SubAll(yePairs, s) ELSE s

\* re.sub("([ᄀᄁᄂᄃᄄᄅᄆᄇᄈᄉᄊᄌᄍᄎᄏᄐᄑᄒ])ᅴ", r"\1ᅵ", inp)
consonant_uiPairs ==
    << Rx(<<Class({Cho.g, Cho.gg, Cho.n, Cho.d, Cho.dd, Cho.r, Cho.m,
                   Cho.b, Cho.bb, Cho.s, Cho.ss, Cho.j, Cho.jj, Cho.c,
                   Cho.k, Cho.t, Cho.p, Cho.h}), Lit(Jung.ui)>>,
          <<<<1, 1>>>>, <<Grp(1), Chr(Jung.i)>>) >>

consonant_ui(s, d) == SubAll(consonant_uiPairs, s)

\* re.sub("의/J", "에", inp) if descriptive else inp.replace("/J", "")
josa_uiPairs(d) ==
    IF d
    THEN << Rx(Literal(<<Cho.ng, Jung.ui, Ascii.slash, Ascii.J>>), <<>>,
               Template(<<Cho.ng, Jung.e>>)) >>
    ELSE << Rx(Literal(<<Ascii.slash, Ascii.J>>), <<>>, <<>>) >>

josa_uiKeepsTag(s, d) ==
    IF d
    THEN ReSub(Rx(Literal(<<Cho.ng, Jung.ui>>), <<>>,
                  Template(<<Cho.ng, Jung.e>>)), s)
    ELSE SubAll(josa_uiPairs(d), s)
josa_ui(s, d) == SubAll(josa_uiPairs(d), s)

\* re.sub(r"(\Sᄋ)ᅴ", r"\1ᅵ", inp) if descriptive else inp
vowel_uiPairs ==
    << Rx(<<NotClass(Whitespace), Lit(Cho.ng), Lit(Jung.ui)>>,
          <<<<1, 2>>>>, <<Grp(1), Chr(Jung.i)>>) >>

vowel_ui(s, d) == IF d THEN SubAll(vowel_uiPairs, s) ELSE s

\* The four substitutions of jamo, in order.  [그] and [으] are classes of
\* two characters each, the lead and the vowel.
jamoPairs ==
    << Rx(<<Class({Cho.g, Jung.eu}), Lit(Jong.d), Lit(Cho.ng)>>,
          <<<<1, 1>>>>, <<Grp(1), Chr(Cho.s)>>),
       Rx(<<Class({Cho.ng, Jung.eu}), Class({Jong.j, Jong.c, Jong.t, Jong.h}),
            Lit(Cho.ng)>>, <<<<1, 1>>>>, <<Grp(1), Chr(Cho.s)>>),
       Rx(<<Class({Cho.ng, Jung.eu}), Class({Jong.k}), Lit(Cho.ng)>>,
          <<<<1, 1>>>>, <<Grp(1), Chr(Cho.g)>>),
       Rx(<<Class({Cho.ng, Jung.eu}), Class({Jong.p}), Lit(Cho.ng)>>,
          <<<<1, 1>>>>, <<Grp(1), Chr(Cho.b)>>) >>

jamo(s, d) == SubAll(jamoPairs, s)

\* re.sub("ᆰ/P([ᄀᄁ])", r"ᆯᄁ", out)
rieulgiyeokPairs ==
    << Rx(<<Lit(Jong.lg), Lit(Ascii.slash), Lit(Ascii.P),
            Class({Cho.g, Cho.gg})>>, <<<<4, 4>>>>,
          Template(<<Jong.l, Cho.gg>>)) >>

rieulgiyeok(s, d) == SubAll(rieulgiyeokPairs, s)

\* "([ᆲᆴ])/P" + onset  ->  r"\1" + fortis, for a class of codas.
Tensify(codas, onset, fortis) ==
    Rx(<<Class(codas), Lit(Ascii.slash), Lit(Ascii.P), Lit(onset)>>,
       <<<<1, 1>>>>, <<Grp(1), Chr(fortis)>>)

\* coda + "/P" + onset  ->  newcoda + fortis.
TensifyTo(coda, newcoda, onset, fortis) ==
    Rx(Literal(<<coda, Ascii.slash, Ascii.P, onset>>), <<>>,
       Template(<<newcoda, fortis>>))

rieulbieubPairsKeepTag ==
    << Rx(<<Class({Jong.lb, Jong.lt}), Lit(Ascii.slash), Lit(Ascii.P), Lit(Cho.g)>>,
          <<<<1, 3>>>>, <<Grp(1), Chr(Cho.gg)>>),
       Tensify({Jong.lb, Jong.lt}, Cho.d, Cho.dd),
       Tensify({Jong.lb, Jong.lt}, Cho.s, Cho.ss),
       Tensify({Jong.lb, Jong.lt}, Cho.j, Cho.jj) >>
rieulbieubPairs ==
    << Tensify({Jong.lb, Jong.lt}, Cho.g, Cho.gg),
       Tensify({Jong.lb, Jong.lt}, Cho.d, Cho.dd),
       Tensify({Jong.lb, Jong.lt}, Cho.s, Cho.ss),
       Tensify({Jong.lb, Jong.lt}, Cho.j, Cho.jj) >>

rieulbieub(s, d) == SubAll(rieulbieubPairs, s)

verb_nieunPairsKeepCluster ==
    << Tensify({Jong.n, Jong.m}, Cho.g, Cho.gg),
       Tensify({Jong.n, Jong.m}, Cho.d, Cho.dd),
       Tensify({Jong.n, Jong.m}, Cho.s, Cho.ss),
       Tensify({Jong.n, Jong.m}, Cho.j, Cho.jj),
       TensifyTo(Jong.nj, Jong.n, Cho.g, Cho.gg),
       TensifyTo(Jong.nj, Jong.n, Cho.d, Cho.dd),
       TensifyTo(Jong.nj, Jong.n, Cho.s, Cho.ss),
       TensifyTo(Jong.nj, Jong.n, Cho.j, Cho.jj),
       TensifyTo(Jong.lm, Jong.lm, Cho.g, Cho.gg),
       TensifyTo(Jong.lm, Jong.lm, Cho.d, Cho.dd),
       TensifyTo(Jong.lm, Jong.lm, Cho.s, Cho.ss),
       TensifyTo(Jong.lm, Jong.lm, Cho.j, Cho.jj) >>
verb_nieunPairs ==
    << Tensify({Jong.n, Jong.m}, Cho.g, Cho.gg),
       Tensify({Jong.n, Jong.m}, Cho.d, Cho.dd),
       Tensify({Jong.n, Jong.m}, Cho.s, Cho.ss),
       Tensify({Jong.n, Jong.m}, Cho.j, Cho.jj),
       TensifyTo(Jong.nj, Jong.n, Cho.g, Cho.gg),
       TensifyTo(Jong.nj, Jong.n, Cho.d, Cho.dd),
       TensifyTo(Jong.nj, Jong.n, Cho.s, Cho.ss),
       TensifyTo(Jong.nj, Jong.n, Cho.j, Cho.jj),
       TensifyTo(Jong.lm, Jong.m, Cho.g, Cho.gg),
       TensifyTo(Jong.lm, Jong.m, Cho.d, Cho.dd),
       TensifyTo(Jong.lm, Jong.m, Cho.s, Cho.ss),
       TensifyTo(Jong.lm, Jong.m, Cho.j, Cho.jj) >>

verb_nieun(s, d) == SubAll(verb_nieunPairs, s)

\* f"(바)ᆲ({syllable_final_or_consonants})" -> r"\1ᆸ\2", then
\* "(너)ᆲ([ᄌᄍ]ᅮ|[ᄃᄄ]ᅮ)" -> r"\1ᆸ\2"; both alternatives of the second
\* pattern are a class followed by ᅮ.
balbPairsDropsFollower ==
    << Rx(<<Lit(Cho.b), Lit(Jung.a), Lit(Jong.lb), EndOrNot({Cho.ng, Cho.h})>>,
          <<<<1, 2>>, <<4, 4>>>>, <<Grp(1), Chr(Jong.b)>>),
       Rx(<<Lit(Cho.n), Lit(Jung.eo), Lit(Jong.lb),
            Class({Cho.j, Cho.jj, Cho.d, Cho.dd}), Lit(Jung.u)>>,
          <<<<1, 2>>, <<4, 5>>>>, <<Grp(1), Chr(Jong.b), Grp(2)>>) >>
balbPairs ==
    << Rx(<<Lit(Cho.b), Lit(Jung.a), Lit(Jong.lb), EndOrNot({Cho.ng, Cho.h})>>,
          <<<<1, 2>>, <<4, 4>>>>, <<Grp(1), Chr(Jong.b), Grp(2)>>),
       Rx(<<Lit(Cho.n), Lit(Jung.eo), Lit(Jong.lb),
            Class({Cho.j, Cho.jj, Cho.d, Cho.dd}), Lit(Jung.u)>>,
          <<<<1, 2>>, <<4, 5>>>>, <<Grp(1), Chr(Jong.b), Grp(2)>>) >>

balb(s, d) == SubAll(balbPairs, s)

\* coda + ᄋ + ([ᅵᅧ])  ->  repl + r"\1"
Palatal(coda, onset, vowels, repl) ==
    Rx(<<Lit(coda), Lit(onset), Class(vowels)>>, <<<<3, 3>>>>,
       Template(repl) \o <<Grp(1)>>)

palatalizePairsAnyVowel ==
    << Palatal(Jong.d, Cho.ng, {Jung.i, Jung.yeo}, <<Cho.j>>),
       Palatal(Jong.t, Cho.ng, {Jung.i, Jung.yeo}, <<Cho.c>>),
       Palatal(Jong.lt, Cho.ng, {Jung.i, Jung.yeo}, <<Jong.l, Cho.c>>),
       Palatal(Jong.d, Cho.h, {Jung.i, Jung.yeo}, <<Cho.c>>) >>
palatalizePairs ==
    << Palatal(Jong.d, Cho.ng, {Jung.i, Jung.yeo}, <<Cho.j>>),
       Palatal(Jong.t, Cho.ng, {Jung.i, Jung.yeo}, <<Cho.c>>),
       Palatal(Jong.lt, Cho.ng, {Jung.i, Jung.yeo}, <<Jong.l, Cho.c>>),
       Palatal(Jong.d, Cho.h, {Jung.i}, <<Cho.c>>) >>

palatalize(s, d) == SubAll(palatalizePairs, s)

\* The literal pairs of modifying_rieul: (str1, str2).
Pair(str1, str2) == Rx(Literal(str1), <<>>, Template(str2))

\* "ᆯ/E " + onset  ->  "ᆯ " + fortis
AfterEnding(onset, fortis) ==
    Pair(<<Jong.l, Ascii.slash, Ascii.E, Ascii.space, onset>>,
         <<Jong.l, Ascii.space, fortis>>)

modifying_rieulPairsNoSurok ==
    << AfterEnding(Cho.g, Cho.gg),
       AfterEnding(Cho.d, Cho.dd),
       AfterEnding(Cho.b, Cho.bb),
       AfterEnding(Cho.s, Cho.ss),
       AfterEnding(Cho.j, Cho.jj),
       Pair(<<Jong.l, Cho.g, Jung.eo, Jong.l>>, <<Jong.l, Cho.gg, Jung.eo, Jong.l>>),
       Pair(<<Jong.l, Cho.b, Jung.a, Jong.gg, Cho.ng, Jung.e>>,
            <<Jong.l, Cho.bb, Jung.a, Cho.gg, Jung.e>>),
       Pair(<<Jong.l, Cho.s, Jung.e, Cho.r, Jung.a>>,
            <<Jong.l, Cho.ss, Jung.e, Cho.r, Jung.a>>),
       Pair(<<Jong.l, Cho.j, Jung.i, Cho.r, Jung.a, Cho.d, Jung.o>>,
            <<Jong.l, Cho.jj, Jung.i, Cho.r, Jung.a, Cho.d, Jung.o>>),
       Pair(<<Jong.l, Cho.j, Jung.i, Cho.ng, Jung.eo, Jong.n, Cho.j, Jung.eo, Jong.ng>>,
            <<Jong.l, Cho.jj, Jung.i, Cho.ng, Jung.eo, Jong.n, Cho.j, Jung.eo, Jong.ng>>),
       Pair(<<Jong.l, Cho.j, Jung.i, Jong.n, Cho.d, Jung.ae>>,
            <<Jong.l, Cho.jj, Jung.i, Jong.n, Cho.d, Jung.ae>>) >>
modifying_rieulPairs ==
    << AfterEnding(Cho.g, Cho.gg),
       AfterEnding(Cho.d, Cho.dd),
       AfterEnding(Cho.b, Cho.bb),
       AfterEnding(Cho.s, Cho.ss),
       AfterEnding(Cho.j, Cho.jj),
       Pair(<<Jong.l, Cho.g, Jung.eo, Jong.l>>, <<Jong.l, Cho.gg, Jung.eo, Jong.l>>),
       Pair(<<Jong.l, Cho.b, Jung.a, Jong.gg, Cho.ng, Jung.e>>,
            <<Jong.l, Cho.bb, Jung.a, Cho.gg, Jung.e>>),
       Pair(<<Jong.l, Cho.s, Jung.e, Cho.r, Jung.a>>,
            <<Jong.l, Cho.ss, Jung.e, Cho.r, Jung.a>>),
       Pair(<<Jong.l, Cho.s, Jung.u, Cho.r, Jung.o, Jong.g>>,
            <<Jong.l, Cho.ss, Jung.u, Cho.r, Jung.o, Jong.g>>),
       Pair(<<Jong.l, Cho.j, Jung.i, Cho.r, Jung.a, Cho.d, Jung.o>>,
            <<Jong.l, Cho.jj, Jung.i, Cho.r, Jung.a, Cho.d, Jung.o>>),
       Pair(<<Jong.l, Cho.j, Jung.i, Cho.ng, Jung.eo, Jong.n, Cho.j, Jung.eo, Jong.ng>>,
            <<Jong.l, Cho.jj, Jung.i, Cho.ng, Jung.eo, Jong.n, Cho.j, Jung.eo, Jong.ng>>),
       Pair(<<Jong.l, Cho.j, Jung.i, Jong.n, Cho.d, Jung.ae>>,
            <<Jong.l, Cho.jj, Jung.i, Jong.n, Cho.d, Jung.ae>>) >>

modifying_rieul(s, d) == SubAll(modifying_rieulPairs, s)

\* The substitutions the call name(inp, descriptive=d) applies, in order.
PairsOf(name, d) ==
    CASE name = "jyeo"            -> jyeoPairs
      [] name = "ye"              -> IF d THEN yePairs ELSE <<>>
      [] name = "consonant_ui"    -> consonant_uiPairs
      [] name = "josa_ui"         -> josa_uiPairs(d)
      [] name = "vowel_ui"        -> IF d THEN vowel_uiPairs ELSE <<>>
      [] name = "jamo"            -> jamoPairs
      [] name = "rieulgiyeok"     -> rieulgiyeokPairs
      [] name = "rieulbieub"      -> rieulbieubPairs
      [] name = "verb_nieun"      -> verb_nieunPairs
      [] name = "balb"            -> balbPairs
      [] name = "palatalize"      -> palatalizePairs
      [] name = "modifying_rieul" -> modifying_rieulPairs

\* The string the rule function called name returns for (inp, descriptive).
Apply(name, s, d) ==
    CASE name = "jyeo"            -> jyeo(s, d)
      [] name = "ye"              -> ye(s, d)
      [] name = "consonant_ui"    -> consonant_ui(s, d)
      [] name = "josa_ui"         -> josa_ui(s, d)
      [] name = "vowel_ui"        -> vowel_ui(s, d)
      [] name = "jamo"            -> jamo(s, d)
      [] name = "rieulgiyeok"     -> rieulgiyeok(s, d)
      [] name = "rieulbieub"      -> rieulbieub(s, d)
      [] name = "verb_nieun"      -> verb_nieun(s, d)
      [] name = "balb"            -> balb(s, d)
      [] name = "palatalize"      -> palatalize(s, d)
      [] name = "modifying_rieul" -> modifying_rieul(s, d)

\* One call of the rule function name: the lookup of its explanation in
\* rule_id2text raises KeyError when the identifier is missing; otherwise
\* the substitutions run and out is returned (gloss prints at most).
Call(name) ==
    /\ rule = "none"
    /\ rule' = name
    /\ IF RuleId[name] \in rule_id2text
       THEN out' = Apply(name, inp, descriptive) /\ raised' = FALSE
       ELSE out' = out /\ raised' = TRUE
    /\ UNCHANGED <<inp, descriptive, translitVars, patternVars>>
    /\ UNCHANGED <<pipelineVars, syllableVars, threadVars>>

Call_jyeo            == Call("jyeo")
Call_ye              == Call("ye")
Call_consonant_ui    == Call("consonant_ui")
Call_josa_ui         == Call("josa_ui")
Call_vowel_ui        == Call("vowel_ui")
Call_jamo            == Call("jamo")
Call_rieulgiyeok     == Call("rieulgiyeok")
Call_rieulbieub      == Call("rieulbieub")
Call_verb_nieun      == Call("verb_nieun")
Call_balb            == Call("balb")
Call_palatalize      == Call("palatalize")
Call_modifying_rieul == Call("modifying_rieul")

\* The strings made of at most n chunks of the set C.
RECURSIVE Strings(_, _)
Strings(C, n) ==
    IF n = 0 THEN {<<>>}
    ELSE LET S == Strings(C, n - 1) IN S \cup {s \o c : s \in S, c \in C}

\* The state before a call of a rule function on one of the inputs.
InitRules(inputs) ==
    /\ inp \in inputs
    /\ descriptive \in BOOLEAN
    /\ out = <<>>
    /\ rule = "none"
    /\ raised = FALSE

-----------------------------------------------------------------------------
(* romanize.py: one construction Syllable(code=c), followed by the reading *)
(* of the properties initial, vowel and final.                             *)

InitSyllable(codes) ==
    /\ code \in codes
    /\ constructed = "no"
    /\ triple = <<>>

\* Syllable(code=code): char is None, so the range test of line 77 decides.
Construct ==
    /\ constructed = "no"
    /\ IF SyllableRaises(code)
       THEN constructed' = "TypeError" /\ triple' = triple
       ELSE /\ constructed' = "yes"
            /\ triple' = <<initial(code), vowel(code), final(code)>>
    /\ UNCHANGED <<code, translitVars, patternVars, ruleVars, pipelineVars,
                   threadVars>>

-----------------------------------------------------------------------------
(* g2p/special.py: rule functions applied one after the other, each to the *)
(* string the one before returned (out holds the current string).          *)

\* Longest sequence of rule functions applied to one input.
MaxRules == 2

InitPipeline(inputs) ==
    /\ inp \in inputs
    /\ out = inp
    /\ applied = <<>>
    /\ descriptive = FALSE
    /\ rule = "idle"
    /\ raised = FALSE

\* out = name(out, descriptive=d)
Pipe(name, d) ==
    /\ ~raised
    /\ Len(applied) < MaxRules
    /\ applied' = Append(applied, [rule |-> name, descriptive |-> d])
    /\ IF RuleId[name] \in rule_id2text
       THEN out' = Apply(name, out, d) /\ raised' = FALSE
       ELSE out' = out /\ raised' = TRUE
    /\ UNCHANGED <<inp, descriptive, rule, translitVars, patternVars,
                   syllableVars, threadVars>>

\* out = name(out, descriptive=d), as often as the caller likes.  rule
\* holds the name of the latest call that returned another string than it
\* was given; a call that returns its argument leaves the state as it is.
Rewrite(name, d) ==
    /\ ~raised
    /\ IF RuleId[name] \in rule_id2text
       THEN out' = Apply(name, out, d) /\ raised' = FALSE
       ELSE out' = out /\ raised' = TRUE
    /\ rule' = IF out' = out THEN rule ELSE name
    /\ UNCHANGED <<inp, descriptive, pipelineVars, translitVars, patternVars,
                   syllableVars, threadVars>>

-----------------------------------------------------------------------------
(* Calls running in several threads.  The module-level objects are shared;  *)
(* every call has its own arguments and local variables.  A thread makes   *)
(* the same call again and again; the steps of the threads interleave.     *)

\* Number of threads, and of calls each thread makes.
NumThreads == 2
MaxCalls == 2

Threads == 1..NumThreads

\* The module-level objects after the import of romanize.py and special.py.
ImportedModule ==
    [ REVISED_INITIALS            |-> REVISED_INITIALS,
      REVISED_VOWELS              |-> REVISED_VOWELS,
      REVISED_FINALS              |-> REVISED_FINALS,
      ACADEMIC_AMBIGUOUS_PATTERNS |-> ACADEMIC_AMBIGUOUS_PATTERNS,
      rule_id2text                |-> rule_id2text ]

\* The module-level objects after the statement  rule = rule_id2text[id]:
\* a subscription reads the dict.
AfterLookupPops(M, id) == [M EXCEPT !.rule_id2text = @ \ {id}]
AfterLookup(M, id) == M

\* The module-level objects after a call academic(now, pre): the function
\* assigns to its locals only.
AfterAcademic(M, n, p) == M

\* academic(now, pre), reading the tables and the pattern set of M.
academicOf(M, n, p) ==
    LET c == n[1]
        s == n[2]
    IN  IF s = None
        THEN IF c = None THEN NoString ELSE <<c>>
        ELSE LET ps == p[2]
                 marker ==
                     IF ps # None
                     THEN IF initial(s) = 11 THEN TRUE
                          ELSE (M.REVISED_FINALS[final(ps) + 1]
                                   \o M.REVISED_INITIALS[initial(s) + 1])
                                   \in M.ACADEMIC_AMBIGUOUS_PATTERNS
                     ELSE FALSE
             IN  (IF marker THEN <<Ascii.hyphen>> ELSE <<>>)
                     \o M.REVISED_INITIALS[initial(s) + 1]
                     \o M.REVISED_VOWELS[vowel(s) + 1]
                     \o M.REVISED_FINALS[final(s) + 1]

\* What a call returns when the lookup in rule_id2text raises KeyError.
KeyError == <<None, None>>

\* The local variables of a call that has not started.
NoFrame ==
    [pc |-> "start", pre |-> NonePair, now |-> NonePair, result |-> <<>>,
     rest |-> <<>>, out |-> <<>>, k |-> 0]

\* Transliter(academic).translit(text) as a function of text: the loop from
\* the state (result, pre, now) on, over the characters rest.
RECURSIVE translitFrom(_, _, _, _)
translitFrom(res, p, n, rest) ==
    IF rest = <<>>
    THEN Join(Appended(res, academic(n, p)))
    ELSE translitFrom(IF n[1] # None THEN Appended(res, academic(n, p)) ELSE res,
                      n, Element(Head(rest)), Tail(rest))

translit(t) == translitFrom(<<>>, NonePair, NonePair, t)

InitThreads(jobs) ==
    /\ module = ImportedModule
    /\ job \in [Threads -> jobs]
    /\ frame = [t \in Threads |-> NoFrame]
    /\ returned = [t \in Threads |-> <<>>]

\* translit, lines 120-122.
CallTranslit(t) ==
    /\ frame[t].pc = "start"
    /\ Len(returned[t]) < MaxCalls
    /\ job[t].fn = "translit"
    /\ frame' = [frame EXCEPT ![t] = [NoFrame EXCEPT !.pc = "loop",
                                                     !.rest = job[t].arg]]
    /\ UNCHANGED <<module, job, returned>>
    /\ UNCHANGED <<translitVars, patternVars, ruleVars, pipelineVars,
                   syllableVars>>

\* translit, one iteration of the loop (lines 123-135).
Iterate(t) ==
    LET f == frame[t]
    IN  /\ f.pc = "loop"
        /\ f.rest # <<>>
        /\ frame' = [frame EXCEPT ![t] =
               [f EXCEPT !.result = IF f.now[1] # None
                                    THEN Appended(f.result, academicOf(module, f.now, f.pre))
                                    ELSE f.result,
                         !.pre = f.now,
                         !.now = Element(Head(f.rest)),
                         !.rest = Tail(f.rest)]]
        /\ module' = IF f.now[1] # None
                     THEN AfterAcademic(module, f.now, f.pre) ELSE module
        /\ UNCHANGED <<job, returned>>
        /\ UNCHANGED <<translitVars, patternVars, ruleVars, pipelineVars,
                       syllableVars>>

\* translit, the last call of the rule and the return (lines 137-142).
LastCall(t) ==
    LET f == frame[t]
    IN  /\ f.pc = "loop"
        /\ f.rest = <<>>
        /\ returned' = [returned EXCEPT ![t] =
               Append(@, Join(Appended(f.result, academicOf(module, f.now, f.pre))))]
        /\ module' = AfterAcademic(module, f.now, f.pre)
        /\ frame' = [frame EXCEPT ![t] = NoFrame]
        /\ UNCHANGED job
        /\ UNCHANGED <<translitVars, patternVars, ruleVars, pipelineVars,
                       syllableVars>>

\* A rule function, its first statements:  rule = rule_id2text[id]; out = inp.
CallRule(t) ==
    /\ frame[t].pc = "start"
    /\ Len(returned[t]) < MaxCalls
    /\ job[t].fn # "translit"
    /\ module' = AfterLookup(module, RuleId[job[t].fn])
    /\ IF RuleId[job[t].fn] \in module.rule_id2text
       THEN /\ frame' = [frame EXCEPT ![t] = [NoFrame EXCEPT !.pc = "subs",
                                                            !.out = job[t].arg]]
            /\ UNCHANGED returned
       ELSE /\ returned' = [returned EXCEPT ![t] = Append(@, KeyError)]
            /\ UNCHANGED frame
    /\ UNCHANGED job
    /\ UNCHANGED <<translitVars, patternVars, ruleVars, pipelineVars,
                   syllableVars>>

\* A rule function, its next substitution:  out = re.sub(str1, str2, out).
Substitute(t) ==
    LET f == frame[t]
        pairs == PairsOf(job[t].fn, job[t].flag)
    IN  /\ f.pc = "subs"
        /\ f.k < Len(pairs)
        /\ frame' = [frame EXCEPT ![t] =
               [f EXCEPT !.out = ReSub(pairs[f.k + 1], f.out), !.k = f.k + 1]]
        /\ UNCHANGED <<module, job, returned>>
        /\ UNCHANGED <<translitVars, patternVars, ruleVars, pipelineVars,
                       syllableVars>>

\* A rule function, return out.
Return(t) ==
    LET f == frame[t]
    IN  /\ f.pc = "subs"
        /\ f.k = Len(PairsOf(job[t].fn, job[t].flag))
        /\ returned' = [returned EXCEPT ![t] = Append(@, f.out)]
        /\ frame' = [frame EXCEPT ![t] = NoFrame]
        /\ UNCHANGED <<module, job>>
        /\ UNCHANGED <<translitVars, patternVars, ruleVars, pipelineVars,
                       syllableVars>>

-----------------------------------------------------------------------------
(* The values the variables of the other parts hold while one part runs.   *)

IdleTranslit ==
    /\ text = <<>> /\ pre = NonePair /\ now = NonePair /\ result = <<>>
    /\ output = <<>> /\ calls = <<>> /\ pc = "idle"

IdlePatterns == cand = <<>> /\ member = "idle"

IdleRules ==
    /\ inp = <<>> /\ descriptive = FALSE /\ out = <<>> /\ rule = "idle"
    /\ raised = FALSE

IdlePipeline == applied = <<>>

IdleSyllable == code = 0 /\ constructed = "idle" /\ triple = <<>>

IdleThreads ==
    /\ module = ImportedModule
    /\ job = <<>> /\ frame = <<>> /\ returned = <<>>

-----------------------------------------------------------------------------
(* Specification SpecTranslit: Transliter(academic).translit(text) for     *)
(* every text of the model.                                                *)

InitSpecTranslit ==
    /\ InitTranslit /\ IdlePatterns /\ IdleRules
    /\ IdlePipeline /\ IdleSyllable /\ IdleThreads

NextTranslit ==
    \/ \E c \in Alphabet :
          ReadChar(c) /\ UNCHANGED <<patternVars, ruleVars, pipelineVars,
                                     syllableVars, threadVars>>
    \/ Finish /\ UNCHANGED <<patternVars, ruleVars, pipelineVars,
                             syllableVars, threadVars>>

SpecTranslit == InitSpecTranslit /\ [][NextTranslit]_vars

-----------------------------------------------------------------------------
(* Specification SpecBoundary: translit on the texts of at most two        *)
(* syllables, with every final in the first and every initial in the       *)
(* second.                                                                 *)

NextBoundary ==
    \/ \E c \in HangulFull :
          /\ Len(text) < 2
          /\ ReadChar(c)
          /\ UNCHANGED <<patternVars, ruleVars, pipelineVars, syllableVars,
                         threadVars>>
    \/ Finish /\ UNCHANGED <<patternVars, ruleVars, pipelineVars,
                             syllableVars, threadVars>>

SpecBoundary == InitSpecTranslit /\ [][NextBoundary]_vars

-----------------------------------------------------------------------------
(* Specification SpecPatterns: the test  cand in ACADEMIC_AMBIGUOUS_PATTERNS *)
(* for every concatenation of two table entries (or of the letter x).       *)

TableEntries == Range(REVISED_FINALS) \cup Range(REVISED_INITIALS) \cup {Str(<<"x">>)}

Candidates == {a \o b : a \in TableEntries, b \in TableEntries}

InitSpecPatterns ==
    /\ cand \in Candidates
    /\ member = "untested"
    /\ IdleTranslit /\ IdleRules
    /\ IdlePipeline /\ IdleSyllable /\ IdleThreads

Lookup ==
    /\ member = "untested"
    /\ member' = IF cand \in ACADEMIC_AMBIGUOUS_PATTERNS THEN "in" ELSE "not in"
    /\ UNCHANGED <<cand, translitVars, ruleVars, pipelineVars,
                   syllableVars, threadVars>>

NextPatterns == Lookup

SpecPatterns == InitSpecPatterns /\ [][NextPatterns]_vars

-----------------------------------------------------------------------------
(* Specification SpecRieulbieub: rieulbieub on strings of codas with and    *)
(* without the tag /P, and onsets.                                          *)

ChunksRieulbieub ==
    { <<Jong.lb, Ascii.slash, Ascii.P>>, <<Jong.lt, Ascii.slash, Ascii.P>>,
      <<Jong.lb>>, <<Ascii.slash, Ascii.P>>,
      <<Cho.g>>, <<Cho.d>>, <<Cho.s>>, <<Cho.j>>, <<Cho.ng>> }

InitSpecRieulbieub ==
    /\ InitRules(Strings(ChunksRieulbieub, MaxChunks))
    /\ IdleTranslit /\ IdlePatterns
    /\ IdlePipeline /\ IdleSyllable /\ IdleThreads

NextRieulbieub == Call_rieulbieub

SpecRieulbieub == InitSpecRieulbieub /\ [][NextRieulbieub]_vars

-----------------------------------------------------------------------------
(* Specification SpecPalatalize: palatalize on strings of codas, onsets     *)
(* and vowels.                                                              *)

ChunksPalatalize ==
    { <<Jong.d, Cho.ng>>, <<Jong.t, Cho.ng>>, <<Jong.lt, Cho.ng>>,
      <<Jong.d, Cho.h>>, <<Jong.t, Cho.h>>, <<Jong.d>>,
      <<Jung.i>>, <<Jung.yeo>>, <<Jung.a>> }

InitSpecPalatalize ==
    /\ InitRules(Strings(ChunksPalatalize, MaxChunks))
    /\ IdleTranslit /\ IdlePatterns
    /\ IdlePipeline /\ IdleSyllable /\ IdleThreads

NextPalatalize == Call_palatalize

SpecPalatalize == InitSpecPalatalize /\ [][NextPalatalize]_vars

-----------------------------------------------------------------------------
(* Specification SpecModifyingRieul: modifying_rieul on strings of ᆯ, the   *)
(* ending 수록 whole and cut, the tag /E and parts of the other patterns.   *)

ChunksModifyingRieul ==
    { <<Jong.l, Cho.s, Jung.u, Cho.r, Jung.o, Jong.g>>,
      <<Jong.l>>,
      <<Ascii.slash, Ascii.E, Ascii.space>>,
      <<Cho.s>>,
      <<Cho.g, Jung.eo>>,
      <<Cho.b, Jung.a, Jong.gg, Cho.ng, Jung.e>>,
      <<Cho.s, Jung.u, Cho.r, Jung.o>>,
      <<Jong.g>> }

InitSpecModifyingRieul ==
    /\ InitRules(Strings(ChunksModifyingRieul, MaxChunks))
    /\ IdleTranslit /\ IdlePatterns
    /\ IdlePipeline /\ IdleSyllable /\ IdleThreads

NextModifyingRieul == Call_modifying_rieul

SpecModifyingRieul == InitSpecModifyingRieul /\ [][NextModifyingRieul]_vars

-----------------------------------------------------------------------------
(* Specification SpecDescriptive: the rules that read the flag descriptive  *)
(* (ye, josa_ui, vowel_ui) on strings of 의, 계, 가, the tag /J, its two    *)
(* characters alone and a space.                                            *)

ChunksDescriptive ==
    { <<Cho.ng, Jung.ui>>, <<Cho.g, Jung.ye>>, <<Cho.g, Jung.a>>,
      <<Ascii.slash, Ascii.J>>, <<Ascii.slash>>, <<Ascii.J>>, <<Ascii.space>> }

InitSpecDescriptive ==
    /\ InitRules(Strings(ChunksDescriptive, MaxChunks))
    /\ IdleTranslit /\ IdlePatterns
    /\ IdlePipeline /\ IdleSyllable /\ IdleThreads

NextDescriptive == Call_ye \/ Call_josa_ui \/ Call_vowel_ui

SpecDescriptive == InitSpecDescriptive /\ [][NextDescriptive]_vars

-----------------------------------------------------------------------------
(* Specification SpecRules: every rule function on strings of characters    *)
(* that are neither jamo nor tags (a Latin letter, a newline, a Hangul      *)
(* syllable, a compatibility jamo), of jamo and of tags.                    *)

ChunksAny ==
    { <<Ascii.a>>, <<Ascii.nl>>, <<Hangul(0, 0, 0)>>, <<CompatRieul, Jung.ye>>,
      <<Jong.lb, Ascii.slash, Ascii.P>>, <<Cho.ng, Jung.ui>>,
      <<Ascii.slash, Ascii.J>>, <<Cho.g>> }

InitSpecRules ==
    /\ InitRules(Strings(ChunksAny, MaxAnyChunks))
    /\ IdleTranslit /\ IdlePatterns
    /\ IdlePipeline /\ IdleSyllable /\ IdleThreads

NextRules ==
    \/ Call_jyeo
    \/ Call_ye
    \/ Call_consonant_ui
    \/ Call_josa_ui
    \/ Call_vowel_ui
    \/ Call_jamo
    \/ Call_rieulgiyeok
    \/ Call_rieulbieub
    \/ Call_verb_nieun
    \/ Call_balb
    \/ Call_palatalize
    \/ Call_modifying_rieul

SpecRules == InitSpecRules /\ [][NextRules]_vars

-----------------------------------------------------------------------------
(* Specification SpecThreads: every thread makes one of these calls, again *)
(* and again, while the other threads make theirs.                         *)

Jobs ==
    { [fn |-> "translit", flag |-> FALSE,
       arg |-> <<Hangul(0, 0, 24), Hangul(1, 0, 0)>>],
      [fn |-> "translit", flag |-> FALSE,
       arg |-> <<Hangul(0, 0, 4), Hangul(11, 0, 0), Ascii.bang>>],
      [fn |-> "rieulbieub", flag |-> FALSE,
       arg |-> <<Jong.lb, Ascii.slash, Ascii.P, Cho.g,
                 Jong.lt, Ascii.slash, Ascii.P, Cho.j>>],
      [fn |-> "josa_ui", flag |-> TRUE,
       arg |-> <<Cho.ng, Jung.ui, Ascii.slash, Ascii.J>>],
      [fn |-> "josa_ui", flag |-> FALSE,
       arg |-> <<Cho.ng, Jung.ui, Ascii.slash, Ascii.J>>] }

InitSpecThreads ==
    /\ InitThreads(Jobs)
    /\ IdleTranslit /\ IdlePatterns /\ IdleRules /\ IdlePipeline /\ IdleSyllable

NextThreads ==
    \E t \in Threads :
        \/ CallTranslit(t)
        \/ Iterate(t)
        \/ LastCall(t)
        \/ CallRule(t)
        \/ Substitute(t)
        \/ Return(t)

SpecThreads == InitSpecThreads /\ [][NextThreads]_vars

-----------------------------------------------------------------------------
(* Specification SpecSyllable: Syllable(code=c) for every code point of    *)
(* the block U+AC00..U+D7A3 and for code points outside it.                *)

CodePoints ==
    (SyllableMIN .. SyllableMAX)
        \cup {0, Ascii.a, Cho.g, CompatRieul, SyllableMIN - 1, SyllableMAX + 1,
              65535, 1114111}

InitSpecSyllable ==
    /\ InitSyllable(CodePoints)
    /\ IdleTranslit /\ IdlePatterns /\ IdleRules /\ IdlePipeline /\ IdleThreads

NextSyllable == Construct

SpecSyllable == InitSpecSyllable /\ [][NextSyllable]_vars

-----------------------------------------------------------------------------
(* Specification SpecYe: ye on strings of a lead and the vowel ᅨ, for every *)
(* lead consonant and for the compatibility jamo U+3139, of ᅨ alone and of *)
(* 가.                                                                     *)

\* Longest input of ye, in chunks.
MaxYeChunks == 2

\* The nineteen lead consonants U+1100..U+1112.
Leads == 4352..4370

ChunksYe ==
    {<<c, Jung.ye>> : c \in Leads \cup {CompatRieul}}
        \cup {<<Jung.ye>>, <<Cho.g, Jung.a>>}

InitSpecYe ==
    /\ InitRules(Strings(ChunksYe, MaxYeChunks))
    /\ IdleTranslit /\ IdlePatterns
    /\ IdlePipeline /\ IdleSyllable /\ IdleThreads

NextYe == Call_ye

SpecYe == InitSpecYe /\ [][NextYe]_vars

-----------------------------------------------------------------------------
(* Specification SpecJamo: jamo on strings of the syllables 그, 으, 뜨, 느, *)
(* the codas of the patterns and of ᆫ, and the onsets ᄋ and ᄀ.            *)

ChunksJamo ==
    { <<Cho.g, Jung.eu>>, <<Cho.ng, Jung.eu>>, <<Cho.dd, Jung.eu>>,
      <<Cho.n, Jung.eu>>,
      <<Jong.d, Cho.ng>>, <<Jong.j, Cho.ng>>, <<Jong.k, Cho.ng>>,
      <<Jong.p, Cho.ng>>, <<Jong.n, Cho.ng>>, <<Jong.d, Cho.g>> }

InitSpecJamo ==
    /\ InitRules(Strings(ChunksJamo, MaxChunks))
    /\ IdleTranslit /\ IdlePatterns
    /\ IdlePipeline /\ IdleSyllable /\ IdleThreads

NextJamo == Call_jamo

SpecJamo == InitSpecJamo /\ [][NextJamo]_vars

-----------------------------------------------------------------------------
(* Specification SpecVerbNieun: verb_nieun on strings of the four codas of  *)
(* its patterns and the coda ᆯ, each with the tag /P, and of onsets.       *)

ChunksVerbNieun ==
    { <<Jong.n, Ascii.slash, Ascii.P>>, <<Jong.m, Ascii.slash, Ascii.P>>,
      <<Jong.nj, Ascii.slash, Ascii.P>>, <<Jong.lm, Ascii.slash, Ascii.P>>,
      <<Jong.l, Ascii.slash, Ascii.P>>,
      <<Cho.g>>, <<Cho.d>>, <<Cho.s>>, <<Cho.j>>, <<Cho.ng>> }

InitSpecVerbNieun ==
    /\ InitRules(Strings(ChunksVerbNieun, MaxChunks))
    /\ IdleTranslit /\ IdlePatterns
    /\ IdlePipeline /\ IdleSyllable /\ IdleThreads

NextVerbNieun == Call_verb_nieun

SpecVerbNieun == InitSpecVerbNieun /\ [][NextVerbNieun]_vars

-----------------------------------------------------------------------------
(* Specification SpecOrder: rieulbieub and balb applied one after the      *)
(* other, in either order, to strings of 밟, the tag /P and onsets.         *)

ChunksOrder ==
    { <<Cho.b, Jung.a, Jong.lb>>, <<Ascii.slash, Ascii.P>>,
      <<Cho.g>>, <<Cho.d>>, <<Cho.s>>, <<Cho.j>>, <<Cho.ng>> }

InitSpecOrder ==
    /\ InitPipeline(Strings(ChunksOrder, MaxChunks))
    /\ IdleTranslit /\ IdlePatterns /\ IdleSyllable /\ IdleThreads

NextOrder ==
    \/ Pipe("rieulbieub", FALSE)
    \/ Pipe("balb", FALSE)

SpecOrder == InitSpecOrder /\ [][NextOrder]_vars

-----------------------------------------------------------------------------
(* Specification SpecTags: the rule functions applied one after the other, *)
(* any of them any number of times with either flag, to strings in which   *)
(* every '/' opens a tag: ᆰ/P, 밟/P, 졂/P, ᅨᆯ/E and a space, 의/J, a tag    *)
(* /J of its own, the same before the onset ᄀ, ᆴ/P, ᆫ/P, the onsets ᄀ     *)
(* and ᄃ, and ᅳᆮ.  Every rule function finds something to rewrite in some *)
(* of the strings.                                                         *)

\* Longest input of the sequences of rule functions, in chunks.
MaxTagChunks == 2

\* The functions of special.py that rewrite a string.
Rules == DOMAIN RuleId

ChunksTags ==
    { <<Jong.lg, Ascii.slash, Ascii.P>>,
      <<Cho.b, Jung.a, Jong.lb, Ascii.slash, Ascii.P>>,
      <<Cho.j, Jung.yeo, Jong.lm, Ascii.slash, Ascii.P>>,
      <<Jung.ye, Jong.l, Ascii.slash, Ascii.E, Ascii.space>>,
      <<Cho.ng, Jung.ui, Ascii.slash, Ascii.J>>,
      <<Ascii.slash, Ascii.J>>, <<Ascii.slash, Ascii.J, Cho.g>>,
      <<Jong.lt, Ascii.slash, Ascii.P>>, <<Jong.n, Ascii.slash, Ascii.P>>,
      <<Cho.g>>, <<Cho.d>>, <<Jung.eu, Jong.d>> }

InitSpecTags ==
    /\ InitPipeline(Strings(ChunksTags, MaxTagChunks))
    /\ IdleTranslit /\ IdlePatterns /\ IdleSyllable /\ IdleThreads

NextTags == \E name \in Rules, d \in BOOLEAN : Rewrite(name, d)

SpecTags == InitSpecTags /\ [][NextTags]_vars

-----------------------------------------------------------------------------
(* Claims about the romanization.                                          *)

\* Whether the character at position k of the text is a Hangul syllable
\* (U+AC00..U+D7A3).
IsHangul(k) == 44032 <= text[k] /\ text[k] <= 55203

\* REVISED_INITIALS[initial] + REVISED_VOWELS[vowel] + REVISED_FINALS[final]
\* of the syllable at position k.
Romanized(k) ==
    REVISED_INITIALS[((text[k] - 44032) \div 588) + 1]
        \o REVISED_VOWELS[(((text[k] - 44032) \div 28) % 21) + 1]
        \o REVISED_FINALS[((text[k] - 44032) % 28) + 1]

NullInitial(k) == (text[k] - 44032) \div 588 = 11

\* REVISED_FINALS[previous final] + REVISED_INITIALS[current initial] is an
\* ambiguous pattern, for the syllables at positions k - 1 and k.
AmbiguousBoundary(k) ==
    (REVISED_FINALS[((text[k - 1] - 44032) % 28) + 1]
        \o REVISED_INITIALS[((text[k] - 44032) \div 588) + 1])
            \in ACADEMIC_AMBIGUOUS_PATTERNS

Marked(k) == result[k] = <<Ascii.hyphen>> \o Romanized(k)

\* C1 as stated: at every position of every text, a syllable whose initial is
\* the null initial, or whose boundary with the previous syllable is an
\* ambiguous pattern, is romanized with the marker '-' in front.
C1_MarkerAtEveryPosition ==
    \A k \in 1..Len(result) :
        (IsHangul(k) /\ (\/ NullInitial(k)
                         \/ (k > 1 /\ IsHangul(k - 1) /\ AmbiguousBoundary(k))))
            => Marked(k)

\* C1 as amended: at every position whose previous character is a Hangul
\* syllable, a syllable whose initial is the null initial, or whose boundary
\* with the previous syllable is an ambiguous pattern, is romanized with the
\* marker '-' in front.
C1_MarkerAfterSyllable ==
    \A k \in 2..Len(result) :
        (IsHangul(k) /\ IsHangul(k - 1) /\ (NullInitial(k) \/ AmbiguousBoundary(k)))
            => Marked(k)

\* A finished text in which a syllable with a non-null initial follows a
\* syllable across an ambiguous boundary, and carries the marker.
C1_Witness ==
    /\ pc = "done"
    /\ \E k \in 2..Len(result) :
          /\ IsHangul(k) /\ IsHangul(k - 1)
          /\ ~NullInitial(k) /\ AmbiguousBoundary(k)
          /\ Marked(k)

\* C2: the fragment of every Hangul syllable is initial + vowel + final of
\* the revised tables, with at most one '-' in front and nothing else; a lone
\* 가 gives "ga", a lone 힣 "hih", a lone 밝 "balg".
C2_SyllableFragment ==
    /\ \A k \in 1..Len(result) :
          IsHangul(k) => result[k] \in {Romanized(k), <<Ascii.hyphen>> \o Romanized(k)}
    /\ pc = "done" =>
          /\ text = <<44032>> => output = Str(<<"g", "a">>)
          /\ text = <<55203>> => output = Str(<<"h", "i", "h">>)
          /\ text = <<48157>> => output = Str(<<"b", "a", "l", "g">>)

\* The lone 밝 has been romanized (a syllable with a two-letter final).
C2_Witness == pc = "done" /\ text = <<48157>> /\ output = Str(<<"b", "a", "l", "g">>)

\* The fragment position k contributes to the output: the character itself
\* when it is no Hangul syllable, the rule's fragment otherwise.
Fragment(k) == IF IsHangul(k) THEN result[k] ELSE <<text[k]>>

\* C3: a character that is no Hangul syllable is its own fragment, every
\* character of the text has exactly one fragment, and the output is the
\* fragments concatenated in the order of the input.
C3_OthersVerbatim ==
    /\ \A k \in 1..Len(result) : ~IsHangul(k) => result[k] = <<text[k]>>
    /\ pc = "done" =>
          /\ Len(result) = Len(text)
          /\ output = Join([k \in 1..Len(text) |-> Fragment(k)])

\* A finished text with a non-Hangul character between two syllables, found
\* in the output between their romanizations.
C3_Witness ==
    /\ pc = "done" /\ Len(text) = 3
    /\ IsHangul(1) /\ ~IsHangul(2) /\ IsHangul(3)
    /\ output = result[1] \o <<text[2]>> \o result[3]

\* The (final, initial) pairs of the two tables whose concatenation is c.
Pairs(c) ==
    {p \in (1..28) \X (1..19) : REVISED_FINALS[p[1]] \o REVISED_INITIALS[p[2]] = c}

\* C4 as stated: a string is in ACADEMIC_AMBIGUOUS_PATTERNS if and only if
\* more than one (final, initial) pair of the tables concatenates to it.
C4_MoreThanOnePair ==
    member # "untested" => (member = "in" <=> Cardinality(Pairs(cand)) > 1)

\* C4 as amended: a string is in ACADEMIC_AMBIGUOUS_PATTERNS if and only if
\* more than one (final, initial) pair of the tables with a non-empty initial
\* concatenates to it.
C4_MoreThanOnePairNonEmptyInitial ==
    member # "untested" =>
        (member = "in" <=>
            Cardinality({p \in Pairs(cand) : REVISED_INITIALS[p[2]] # <<>>}) > 1)

\* A three-letter string was looked up and found in the set.
C4_Witness == member = "in" /\ Len(cand) = 3

-----------------------------------------------------------------------------
(* Claims about the rule functions.                                        *)

\* The character of s at position i, None outside the string.
CharAt(s, i) == IF 1 <= i /\ i <= Len(s) THEN s[i] ELSE None

\* The fortis counterpart of a plain onset.
Fortis(c) ==
    CASE c = Cho.g -> Cho.gg
      [] c = Cho.d -> Cho.dd
      [] c = Cho.b -> Cho.bb
      [] c = Cho.s -> Cho.ss
      [] c = Cho.j -> Cho.jj

\* The string made of one piece per character of s, in order.
Pieces(piece(_, _), s) == Join([i \in 1..Len(s) |-> piece(s, i)])

\* An occurrence in s at position i: coda ᆲ or ᆴ, the tag /P, and an onset
\* among ᄀ, ᄃ, ᄉ, ᄌ.
StemTagOnset(s, i) ==
    /\ CharAt(s, i) \in {Jong.lb, Jong.lt}
    /\ CharAt(s, i + 1) = Ascii.slash
    /\ CharAt(s, i + 2) = Ascii.P
    /\ CharAt(s, i + 3) \in {Cho.g, Cho.d, Cho.s, Cho.j}

StemTagOnsetsBefore(s, i) == Cardinality({j \in 1..(i - 1) : StemTagOnset(s, j)})

\* C5: rieulbieub, with either value of descriptive: for every occurrence
\* of coda ᆲ/ᆴ + /P + onset ᄀ/ᄃ/ᄉ/ᄌ the output holds, where the occurrence
\* was (two places to the left for every occurrence before it), the coda
\* followed directly by the fortis onset; the tags of the occurrences are
\* the only characters dropped.
C5_RieulbieubTensifies ==
    rule = "rieulbieub" =>
        /\ Len(out) = Len(inp) - 2 * StemTagOnsetsBefore(inp, Len(inp) + 1)
        /\ \A i \in 1..Len(inp) :
              StemTagOnset(inp, i) =>
                  LET m == i - 2 * StemTagOnsetsBefore(inp, i)
                  IN  /\ CharAt(out, m) = inp[i]
                      /\ CharAt(out, m + 1) = Fortis(inp[i + 3])

\* rieulbieub was called with descriptive set on a string with an occurrence
\* of each coda, and rewrote both.
C5_Witness ==
    /\ rule = "rieulbieub" /\ descriptive
    /\ inp = <<Jong.lb, Ascii.slash, Ascii.P, Cho.s, Jong.lt, Ascii.slash, Ascii.P, Cho.j>>
    /\ out = <<Jong.lb, Cho.ss, Jong.lt, Cho.jj>>

\* What palatalize makes of the character at position i of s.
PalatalPiece(s, i) ==
    LET c  == s[i]
        pv == CharAt(s, i - 1)
        nx == CharAt(s, i + 1)
        n2 == CharAt(s, i + 2)
    IN  CASE c = Jong.d  /\ nx = Cho.ng /\ n2 \in {Jung.i, Jung.yeo} -> <<Cho.j>>
          [] c = Jong.t  /\ nx = Cho.ng /\ n2 \in {Jung.i, Jung.yeo} -> <<Cho.c>>
          [] c = Jong.lt /\ nx = Cho.ng /\ n2 \in {Jung.i, Jung.yeo} -> <<Jong.l, Cho.c>>
          [] c = Jong.d  /\ nx = Cho.h  /\ n2 = Jung.i               -> <<Cho.c>>
          [] c = Cho.ng /\ pv \in {Jong.d, Jong.t, Jong.lt}
                        /\ nx \in {Jung.i, Jung.yeo}                  -> <<>>
          [] c = Cho.h /\ pv = Jong.d /\ nx = Jung.i                  -> <<>>
          [] OTHER                                                    -> <<c>>

\* C6: palatalize rewrites every ᆮ+ᄋ+v to ᄌ+v, ᇀ+ᄋ+v to ᄎ+v, ᆴ+ᄋ+v to
\* ᆯ+ᄎ+v (v one of ᅵ, ᅧ) and ᆮ+ᄒ+ᅵ to ᄎ+ᅵ, and leaves every other
\* character as it is.
C6_PalatalizeRewrites ==
    rule = "palatalize" => out = Pieces(PalatalPiece, inp)

\* palatalize was called on ᆴ+ᄋ+ᅧ+ᆮ+ᄒ+ᅵ and rewrote both occurrences.
C6_Witness ==
    /\ rule = "palatalize"
    /\ inp = <<Jong.lt, Cho.ng, Jung.yeo, Jong.d, Cho.h, Jung.i>>
    /\ out = <<Jong.l, Cho.c, Jung.yeo, Cho.c, Jung.i>>

\* The listed patterns of modifying_rieul that match s at position i.
ListedAt(s, i) ==
    {k \in 1..Len(modifying_rieulPairs) :
        MatchLen(modifying_rieulPairs[k].pat, s, i) > 0}

\* By how many characters the replacement of the pattern matching at
\* position i is shorter than the pattern (0 when none matches).
Shrink(s, i) ==
    IF ListedAt(s, i) = {} THEN 0
    ELSE LET k == CHOOSE k \in ListedAt(s, i) : TRUE
         IN  Len(modifying_rieulPairs[k].pat) - Len(modifying_rieulPairs[k].repl)

\* The characters the rule drops in front of position i.
RECURSIVE DroppedBefore(_, _)
DroppedBefore(s, i) ==
    IF i <= 1 THEN 0 ELSE DroppedBefore(s, i - 1) + Shrink(s, i - 1)

\* Whether s holds the word w at position i.
WordAt(s, i, w) == \A k \in 1..Len(w) : CharAt(s, i + k - 1) = w[k]

RieulSurok  == <<Jong.l, Cho.s, Jung.u, Cho.r, Jung.o, Jong.g>>
RieulSsurok == <<Jong.l, Cho.ss, Jung.u, Cho.r, Jung.o, Jong.g>>

\* C7: modifying_rieul turns every ᆯ수록 of the input into ᆯ쑤록 (at the
\* place the occurrence has once the characters dropped in front of it are
\* gone); a coda ᆯ at which none of the twelve listed patterns matches, and
\* the character after it, stay as they are; and a string in which no
\* listed pattern matches anywhere is returned unchanged.
C7_ModifyingRieulSurok ==
    rule = "modifying_rieul" =>
        /\ \A i \in 1..Len(inp) :
              WordAt(inp, i, RieulSurok) =>
                  WordAt(out, i - DroppedBefore(inp, i), RieulSsurok)
        /\ \A i \in 1..Len(inp) :
              (inp[i] = Jong.l /\ ListedAt(inp, i) = {}) =>
                  /\ CharAt(out, i - DroppedBefore(inp, i)) = Jong.l
                  /\ i < Len(inp) =>
                        CharAt(out, i + 1 - DroppedBefore(inp, i)) = inp[i + 1]
        /\ (\A i \in 1..Len(inp) : ListedAt(inp, i) = {}) => out = inp

\* modifying_rieul was called on ᆯ/E ᄉ + ᆯ수록: the first pattern drops the
\* tag, and the ᆯ수록 behind it became ᆯ쑤록.
C7_Witness ==
    /\ rule = "modifying_rieul"
    /\ inp = <<Jong.l, Ascii.slash, Ascii.E, Ascii.space, Cho.s>> \o RieulSurok
    /\ out = <<Jong.l, Ascii.space, Cho.ss>> \o RieulSsurok

\* What deleting the tags /J makes of the character at position i of s.
TagJPiece(s, i) ==
    IF \/ (s[i] = Ascii.slash /\ CharAt(s, i + 1) = Ascii.J)
       \/ (s[i] = Ascii.J /\ CharAt(s, i - 1) = Ascii.slash)
    THEN <<>> ELSE <<s[i]>>

\* C8: with descriptive=False, ye and vowel_ui return their input, and
\* josa_ui returns its input without the occurrences of /J, every other
\* character as it was (의 stays 의).
C8_PrescriptiveNoRewrite ==
    ~descriptive =>
        /\ rule = "ye" => out = inp
        /\ rule = "vowel_ui" => out = inp
        /\ rule = "josa_ui" => out = Pieces(TagJPiece, inp)

\* josa_ui was called with descriptive=False on 의/J + 계 and returned 의 + 계.
C8_Witness ==
    /\ rule = "josa_ui" /\ ~descriptive
    /\ inp = <<Cho.ng, Jung.ui, Ascii.slash, Ascii.J, Cho.g, Jung.ye>>
    /\ out = <<Cho.ng, Jung.ui, Cho.g, Jung.ye>>

\* What josa_ui with descriptive=True makes of the character at position i.
JosaPiece(s, i) ==
    LET c == s[i]
    IN  CASE c = Jung.ui /\ CharAt(s, i - 1) = Cho.ng
                /\ CharAt(s, i + 1) = Ascii.slash /\ CharAt(s, i + 2) = Ascii.J
                                                                -> <<Jung.e>>
          [] c = Ascii.slash /\ CharAt(s, i - 2) = Cho.ng /\ CharAt(s, i - 1) = Jung.ui
                /\ CharAt(s, i + 1) = Ascii.J                   -> <<>>
          [] c = Ascii.J /\ CharAt(s, i - 3) = Cho.ng /\ CharAt(s, i - 2) = Jung.ui
                /\ CharAt(s, i - 1) = Ascii.slash               -> <<>>
          [] OTHER                                              -> <<c>>

\* The tags /J of s that do not follow 의.
OtherTagsJ(s) ==
    Cardinality({i \in 1..Len(s) :
        /\ s[i] = Ascii.slash /\ CharAt(s, i + 1) = Ascii.J
        /\ ~(CharAt(s, i - 2) = Cho.ng /\ CharAt(s, i - 1) = Jung.ui)})

\* C9: with descriptive=True, josa_ui turns every 의/J into 에 without the
\* tag and changes nothing else; the tags /J that follow something else
\* are all in the output, and none follows 의 there.
C9_DescriptiveJosaUi ==
    (rule = "josa_ui" /\ descriptive) =>
        /\ out = Pieces(JosaPiece, inp)
        /\ OtherTagsJ(out) = OtherTagsJ(inp)

\* josa_ui was called with descriptive=True on 의/J + 가/J and returned
\* 에 + 가/J.
C9_Witness ==
    /\ rule = "josa_ui" /\ descriptive
    /\ inp = <<Cho.ng, Jung.ui, Ascii.slash, Ascii.J, Cho.g, Jung.a, Ascii.slash, Ascii.J>>
    /\ out = <<Cho.ng, Jung.e, Cho.g, Jung.a, Ascii.slash, Ascii.J>>

\* None of the patterns the call name(s, descriptive=d) applies occurs in s.
NoPatternOccurs(name, s, d) ==
    \A k \in 1..Len(PairsOf(name, d)) :
        \A i \in 1..Len(s) : MatchLen(PairsOf(name, d)[k].pat, s, i) = 0

-----------------------------------------------------------------------------
(* Claims about the calls of the rule by Transliter.translit.              *)

\* The (character, Syllable-or-None) element of position k of the text.
ElementAt(k) == <<text[k], IF IsHangul(k) THEN text[k] ELSE None>>

\* C11 as stated: a finished call of translit on a text of n characters
\* (n >= 0) has invoked the rule exactly n times, the k-th time with the
\* element of position k as now, the element of position k - 1 (or
\* (None, None) at the first position) as pre and the element of position
\* k + 1 (or (None, None) at the last position) as post.
C11_OneCallPerCharacter ==
    pc = "done" =>
        /\ Len(calls) = Len(text)
        /\ \A k \in 1..Len(text) :
              /\ calls[k][1] = ElementAt(k)
              /\ calls[k][2] = IF k = 1 THEN NonePair ELSE ElementAt(k - 1)
              /\ calls[k][3] = IF k = Len(text) THEN NonePair ELSE ElementAt(k + 1)

-----------------------------------------------------------------------------
(* Claims about concurrent and repeated calls.                             *)

\* What the call j returns when it runs alone.
Alone(j) ==
    IF j.fn = "translit" THEN translit(j.arg)
    ELSE IF RuleId[j.fn] \in rule_id2text THEN Apply(j.fn, j.arg, j.flag)
    ELSE KeyError

\* C12: whatever the interleaving of the threads' calls, the module-level
\* objects (the REVISED_* tables, ACADEMIC_AMBIGUOUS_PATTERNS, rule_id2text)
\* are what the import made them, and every call of every thread has
\* returned what the same call returns when it runs alone; so a repeated
\* call returns the same output again.
C12_CallsIndependent ==
    /\ module = ImportedModule
    /\ \A t \in Threads :
          \A r \in 1..Len(returned[t]) : returned[t][r] = Alone(job[t])

\* Thread 1 is in the loop of its second translit and thread 2 between the
\* substitutions of its second rieulbieub; the first call of each returned
\* while the other thread was running.
C12_Witness ==
    /\ job[1].fn = "translit" /\ job[2].fn = "rieulbieub"
    /\ Len(returned[1]) = 1 /\ Len(returned[2]) = 1
    /\ frame[1].pc = "loop" /\ Len(frame[1].result) = 1
    /\ frame[2].pc = "subs" /\ frame[2].k = 1
    /\ returned[1][1] = Alone(job[1])
    /\ returned[2][1] = <<Jong.lb, Cho.gg, Jong.lt, Cho.jj>>

-----------------------------------------------------------------------------
(* Claims about Syllable.                                                  *)

\* The triples of all the code points of the block.
AllTriples == {<<initial(c), vowel(c), final(c)>> : c \in 44032..55203}

\* C13: Syllable(code=c) succeeds exactly for the code points c of
\* U+AC00..U+D7A3 and raises TypeError for every other one; for a
\* constructed Syllable initial is in 0..18, vowel in 0..20, final in 0..27,
\* c = 0xAC00 + initial * 588 + vowel * 28 + final, the three indices are
\* indices of the tables of 19, 21 and 28 entries, and the 11172 code
\* points of the block have 11172 different triples.
C13_SyllableTriple ==
    /\ constructed # "no" =>
          (constructed = "yes" <=> (44032 <= code /\ code <= 55203))
    /\ constructed = "TypeError" => (code < 44032 \/ code > 55203)
    /\ constructed = "yes" =>
          /\ triple[1] \in 0..18 /\ triple[2] \in 0..20 /\ triple[3] \in 0..27
          /\ code = 44032 + triple[1] * 588 + triple[2] * 28 + triple[3]
          /\ Len(REVISED_INITIALS) = 19 /\ (triple[1] + 1) \in DOMAIN REVISED_INITIALS
          /\ Len(REVISED_VOWELS) = 21 /\ (triple[2] + 1) \in DOMAIN REVISED_VOWELS
          /\ Len(REVISED_FINALS) = 28 /\ (triple[3] + 1) \in DOMAIN REVISED_FINALS
    /\ Cardinality(AllTriples) = 11172

\* The last code point of the block, U+D7A3, was constructed: its triple is
\* the last entry of each table.
C13_Witness ==
    /\ constructed = "yes" /\ code = 55203
    /\ triple = <<18, 20, 27>>

-----------------------------------------------------------------------------
(* Claims about ye, vowel_ui and jamo.                                     *)

\* The fifteen lead consonants other than ᄋ, ᄂ, ᄉ, ᄊ.
FifteenLeads ==
    {Cho.g, Cho.gg, Cho.d, Cho.dd, Cho.r, Cho.m, Cho.b, Cho.bb, Cho.j,
     Cho.jj, Cho.c, Cho.k, Cho.t, Cho.p, Cho.h}

\* The vowel ᅨ after one of the fifteen leads becomes ᅦ.
YePiece(s, i) ==
    IF s[i] = Jung.ye /\ CharAt(s, i - 1) \in FifteenLeads
    THEN <<Jung.e>> ELSE <<s[i]>>

\* C14 as stated: with descriptive=True, ye rewrites ᅨ to ᅦ after each of
\* the fifteen leads ᄀ ᄁ ᄃ ᄄ ᄅ ᄆ ᄇ ᄈ ᄌ ᄍ ᄎ ᄏ ᄐ ᄑ ᄒ and leaves every
\* other character, ᅨ after ᄋ, ᄂ, ᄉ, ᄊ included, unchanged.
C14_YeAfterFifteenLeads ==
    (rule = "ye" /\ descriptive) => out = Pieces(YePiece, inp)

\* The vowel ᅴ of an 의 that follows a character other than whitespace
\* becomes ᅵ.
VowelUiPiece(s, i) ==
    IF /\ s[i] = Jung.ui /\ CharAt(s, i - 1) = Cho.ng
       /\ i >= 3 /\ s[i - 2] \notin Whitespace
    THEN <<Jung.i>> ELSE <<s[i]>>

\* C15 as stated: with descriptive=True, vowel_ui rewrites to ᅵ every ᅴ
\* whose onset ᄋ follows a character that is no whitespace (each 의 of a
\* run of 의 after the first one included), and leaves every other
\* character, an 의 at the start or after whitespace included, unchanged.
C15_VowelUiEveryNonInitial ==
    (rule = "vowel_ui" /\ descriptive) => out = Pieces(VowelUiPiece, inp)

\* The onset that replaces the coda c and the ᄋ after it in a letter name.
LetterNameOnset(c) ==
    CASE c \in {Jong.d, Jong.j, Jong.c, Jong.t, Jong.h} -> Cho.s
      [] c = Jong.k -> Cho.g
      [] c = Jong.p -> Cho.b

\* Whether position i of s holds a coda that closes the syllable 그 (for ᆮ)
\* or 으 (for ᆽ, ᆾ, ᇀ, ᇂ, ᆿ, ᇁ) and is followed by ᄋ.
LetterNameCoda(s, i) ==
    /\ CharAt(s, i + 1) = Cho.ng
    /\ CharAt(s, i - 1) = Jung.eu
    /\ \/ CharAt(s, i) = Jong.d /\ CharAt(s, i - 2) = Cho.g
       \/ CharAt(s, i) \in {Jong.j, Jong.c, Jong.t, Jong.h, Jong.k, Jong.p}
              /\ CharAt(s, i - 2) = Cho.ng

JamoPiece(s, i) ==
    IF LetterNameCoda(s, i) THEN <<LetterNameOnset(s[i])>>
    ELSE IF LetterNameCoda(s, i - 1) THEN <<>>
    ELSE <<s[i]>>

\* C16 as stated: jamo replaces a coda and the ᄋ after it by an onset (ᆮ by
\* ᄉ after 그; ᆽ, ᆾ, ᇀ, ᇂ by ᄉ, ᆿ by ᄀ, ᇁ by ᄇ after 으) only when the
\* coda closes the syllable 그 or 으; after ᅳ with another lead the coda and
\* the ᄋ are left unchanged.
C16_JamoOnlyLetterNames ==
    rule = "jamo" => out = Pieces(JamoPiece, inp)

-----------------------------------------------------------------------------
(* Claims about the boundary of two syllables in the romanization.         *)

\* The romanization of the vowel and the final of the syllable at position k.
VowelAndFinal(k) ==
    REVISED_VOWELS[(((text[k] - 44032) \div 28) % 21) + 1]
        \o REVISED_FINALS[((text[k] - 44032) % 28) + 1]

\* The output between the vowel of the syllable at position k and the vowel
\* of the syllable at position k + 1: the end of fragment k behind its vowel
\* and the start of fragment k + 1 in front of its vowel.
Between(k) ==
    LET fin == REVISED_FINALS[((text[k] - 44032) % 28) + 1]
    IN  SubSeq(result[k], Len(result[k]) - Len(fin) + 1, Len(result[k]))
            \o SubSeq(result[k + 1], 1, Len(result[k + 1]) - Len(VowelAndFinal(k + 1)))

\* The text the rule emits between the vowels of a syllable with final f and
\* a following syllable with initial i.
BoundaryOf(f, i) ==
    LET r == academic(<<Hangul(i, 0, 0), Hangul(i, 0, 0)>>,
                      <<Hangul(0, 0, f), Hangul(0, 0, f)>>)
    IN  REVISED_FINALS[f + 1] \o SubSeq(r, 1, Len(r) - Len(REVISED_VOWELS[1]))

\* The boundary texts of all the pairs (final, initial).
BoundaryTexts == {<<f, i, BoundaryOf(f, i)>> : f \in 0..27, i \in 0..18}

\* C17: in a finished romanization, the output between the vowels of two
\* adjacent syllables is the boundary text of their (final, initial) pair
\* and of no other pair of the 28 finals and 19 initials.
C17_BoundaryDeterminesPair ==
    pc = "done" =>
        \A k \in 1..(Len(text) - 1) :
            (IsHangul(k) /\ IsHangul(k + 1)) =>
                \A b \in BoundaryTexts :
                    b[3] = Between(k)
                        <=> (b[1] = (text[k] - 44032) % 28
                             /\ b[2] = (text[k + 1] - 44032) \div 588)

\* 갘 + 끼 was romanized "gak-kki": the boundary "k-kk" tells the pair
\* (final k, initial kk) from (final kk, initial k).
C17_Witness ==
    /\ pc = "done"
    /\ text = <<Hangul(0, 0, 24), Hangul(1, 20, 0)>>
    /\ Between(1) = Str(<<"k">>) \o <<Ascii.hyphen>> \o Str(<<"k", "k">>)
    /\ BoundaryOf(2, 15) = Str(<<"k", "k">>) \o <<Ascii.hyphen>> \o Str(<<"k">>)

\* C18: a fragment carries the marker '-' only if the character before it
\* in the text is a Hangul syllable: the first syllable of a text and a
\* syllable after a character that is no Hangul syllable are romanized
\* without it, whatever their initial.
C18_MarkerOnlyAfterSyllable ==
    \A k \in 1..Len(result) :
        IsHangul(k) =>
            /\ Marked(k) => (k > 1 /\ IsHangul(k - 1))
            /\ (k = 1 \/ ~IsHangul(k - 1)) => result[k] = Romanized(k)

\* 까 + space + 이 was romanized "kka i": neither the first syllable, whose
\* initial kk alone is an ambiguous pattern, nor the null-initial syllable
\* after the space carries a marker.
C18_Witness ==
    /\ pc = "done"
    /\ text = <<Hangul(1, 0, 0), Ascii.space, Hangul(11, 20, 0)>>
    /\ REVISED_INITIALS[2] \in ACADEMIC_AMBIGUOUS_PATTERNS
    /\ output = Str(<<"k", "k", "a">>) \o <<Ascii.space>> \o Str(<<"i">>)

-----------------------------------------------------------------------------
(* Claims about the order of rieulbieub and balb, and about verb_nieun.    *)

\* The names of the rule functions applied so far, in order.
AppliedNames == [k \in 1..Len(applied) |-> applied[k].rule]

\* An occurrence in s at position i: 바 + coda ᆲ + the tag /P + an onset
\* among ᄀ, ᄃ, ᄉ, ᄌ.
BalbTagOnset(s, i) ==
    /\ WordAt(s, i, <<Cho.b, Jung.a, Jong.lb, Ascii.slash, Ascii.P>>)
    /\ CharAt(s, i + 5) \in {Cho.g, Cho.d, Cho.s, Cho.j}

\* C19 as stated: for every occurrence of 바 + ᆲ + /P + onset in the input,
\* rieulbieub followed by balb yields, where the occurrence was, 바 + coda ᆸ
\* directly followed by the fortis onset; balb followed by rieulbieub
\* yields a string with 바 + ᆸ + /P + the plain onset, different from the
\* string the other order yields.
C19_OrderLoadBearing ==
    \A i \in 1..Len(inp) :
        BalbTagOnset(inp, i) =>
            /\ AppliedNames = <<"rieulbieub", "balb">> =>
                  WordAt(out, i - 2 * StemTagOnsetsBefore(inp, i),
                         <<Cho.b, Jung.a, Jong.b, Fortis(inp[i + 5])>>)
            /\ AppliedNames = <<"balb", "rieulbieub">> =>
                  /\ \E m \in 1..Len(out) :
                        WordAt(out, m, <<Cho.b, Jung.a, Jong.b, Ascii.slash,
                                         Ascii.P, inp[i + 5]>>)
                  /\ out # balb(rieulbieub(inp, FALSE), FALSE)

\* An occurrence in s at position i: a coda among ᆫ, ᆷ, ᆬ, ᆱ, the tag /P,
\* and an onset among ᄀ, ᄃ, ᄉ, ᄌ.
NasalTagOnset(s, i) ==
    /\ CharAt(s, i) \in {Jong.n, Jong.m, Jong.nj, Jong.lm}
    /\ CharAt(s, i + 1) = Ascii.slash
    /\ CharAt(s, i + 2) = Ascii.P
    /\ CharAt(s, i + 3) \in {Cho.g, Cho.d, Cho.s, Cho.j}

\* What verb_nieun makes of the character at position i of s: the coda of
\* an occurrence stays (ᆫ, ᆷ) or is reduced (ᆬ to ᆫ, ᆱ to ᆷ), its tag
\* goes, its onset becomes fortis; any other character stays.
VerbNieunPiece(s, i) ==
    CASE NasalTagOnset(s, i) ->
             << CASE s[i] = Jong.nj -> Jong.n
                  [] s[i] = Jong.lm -> Jong.m
                  [] OTHER          -> s[i] >>
      [] NasalTagOnset(s, i - 1) -> <<>>
      [] NasalTagOnset(s, i - 2) -> <<>>
      [] NasalTagOnset(s, i - 3) -> <<Fortis(s[i])>>
      [] OTHER -> <<s[i]>>

\* C20: verb_nieun, with either value of descriptive, turns every
\* occurrence of coda ᆫ/ᆷ/ᆬ/ᆱ + /P + onset ᄀ/ᄃ/ᄉ/ᄌ into the coda (ᆬ
\* reduced to ᆫ, ᆱ to ᆷ) directly followed by the fortis onset, and leaves
\* every other character, a /P after another coda or before another onset
\* and its neighbours included, as it is.
C20_VerbNieunTensifies ==
    rule = "verb_nieun" => out = Pieces(VerbNieunPiece, inp)

\* verb_nieun was called on ᆱ/Pᄉ + ᆯ/Pᄃ: the cluster was reduced and the
\* onset tensed; the /P after the coda ᆯ is still there.
C20_Witness ==
    /\ rule = "verb_nieun"
    /\ inp = <<Jong.lm, Ascii.slash, Ascii.P, Cho.s,
               Jong.l, Ascii.slash, Ascii.P, Cho.d>>
    /\ out = <<Jong.m, Cho.ss, Jong.l, Ascii.slash, Ascii.P, Cho.d>>

-----------------------------------------------------------------------------
(* Claims about the tags.                                                  *)

\* The letters that make a tag after '/'.
TagLetters == {Ascii.P, Ascii.E, Ascii.J}

\* Every '/' of s is immediately followed by one of P, E, J.
WellFormed(s) ==
    \A i \in 1..Len(s) :
        s[i] = Ascii.slash => (i < Len(s) /\ s[i + 1] \in TagLetters)

\* s.count('/' + letter)
TagCount(letter, s) ==
    Cardinality({i \in 1..(Len(s) - 1) :
                    s[i] = Ascii.slash /\ s[i + 1] = letter})

\* The rule functions that remove the tag of the letter.
Removers(letter) ==
    CASE letter = Ascii.P -> {"rieulgiyeok", "rieulbieub", "verb_nieun"}
      [] letter = Ascii.E -> {"modifying_rieul"}
      [] letter = Ascii.J -> {"josa_ui"}

\* C21: on a well-formed string no call of a rule function adds a tag, so
\* no tag is ever more frequent than in the original string, and a call
\* that removes a tag is a call of one of the rules of that tag: /P goes
\* by rieulgiyeok, rieulbieub and verb_nieun only, /E by modifying_rieul
\* only, /J by josa_ui only.
C21_TagFootprint ==
    [][ WellFormed(inp) =>
          \A letter \in TagLetters :
              /\ TagCount(letter, out') <= TagCount(letter, out)
              /\ TagCount(letter, out') <= TagCount(letter, inp)
              /\ TagCount(letter, out') < TagCount(letter, out)
                    => rule' \in Removers(letter) ]_vars

\* Calls on ᆰ/P + /J + ᄀ have removed /J and then /P: the latest call
\* that rewrote the string was rieulgiyeok and no tag is left.
C21_Witness ==
    /\ inp = <<Jong.lg, Ascii.slash, Ascii.P, Ascii.slash, Ascii.J, Cho.g>>
    /\ rule = "rieulgiyeok"
    /\ out = <<Jong.l, Cho.gg>>

=============================================================================
